---- MODULE Spec2Model ----
(***************************************************************************)
(* Model of the appointment reminder scheduler of the backend              *)
(* (src/services/notificationScheduler.js): the start/stop driver with its *)
(* two cron tasks, the today-pipeline (sendTodaysAppointmentNotifications) *)
(* and the soon-pipeline (sendUpcomingAppointmentReminders), each split at *)
(* its awaits, over an appointment table and a notification table.         *)
(*                                                                         *)
(* Time is in milliseconds, as in the Date arithmetic of the source.  The  *)
(* local time zone is taken to be UTC without daylight saving, so that     *)
(* setHours(0,0,0,0) is the last multiple of Day and setDate(+1) adds Day. *)
(*                                                                         *)
(* Beside it stands the report-generation route: generateFlowReport and    *)
(* OpenAIService.generateSystemFlowReport, split at the chat-completion    *)
(* call.                                                                   *)
(***************************************************************************)
EXTENDS Integers, Sequences, FiniteSets, Bags, TLC

\* ---------------------------------------------------------------- bounds

\* Number of rows of the appointments table.
NumAppts == 2
\* Number of pipeline invocations in one behaviour when they may overlap.
MaxRuns == 3
\* Number of pipeline invocations in one behaviour when they may not.
SeqRuns == 2
\* Number of report requests in one behaviour.
MaxRequests == 2

\* ------------------------------------------------------- program constants

\* 60 * 60 * 1000 of oneHourFromNow
OneHour == 60 * 60 * 1000
\* (1000 * 60) of timeUntilAppointment
MsPerMinute == 1000 * 60
\* one setDate(getDate() + 1) step
Day == 24 * OneHour
\* hour of the daily cron expression '0 8 * * *'
DailyHour == 8
\* timeUntilAppointment <= 60
SoonMinutes == 60

NULL == "null"

ReminderTypes == {"appointment_reminder", "zoom_meeting_reminder"}
CandidateStatuses == {"scheduled", "confirmed"}

\* --------------------------------------------------------- input domains

\* Start of the day in which every behaviour begins.
T0 == Day
\* 08:00 and 09:00 of that day: the instants the clock takes.
T8 == T0 + DailyHour * OneHour
T9 == T8 + OneHour
ClockValues == {T8, T9}

ApptIds == 1..NumAppts
RunSlots == 1..MaxRuns
Statuses == {"scheduled", "confirmed", "cancelled"}
Locations == {"telehealth", "clinic"}
WorkerIds == {"w1"}
ClinicianIds == {"c1"}
RequestSlots == 1..MaxRequests

\* ------------------------------------------------------------------ state

VARIABLES
    now,            \* the wall clock (new Date()), in ms
    supabaseAdmin,  \* TRUE iff the store client is configured
    cronDestroy,    \* TRUE iff the node-cron module exports a function destroy
    appointments,   \* the appointments table: ApptIds -> row
    notifications,  \* the notifications table: a bag of stored rows
    isRunning,      \* NotificationScheduler.isRunning
    tasks,          \* node-cron's registered tasks: kind -> number of live tasks
    fired,          \* the cron kinds that already fired at the instant `now`
    runs,           \* the pipeline invocations: RunSlots -> invocation
    nextSerial,     \* serial number of the next invocation
    apiKey,         \* TRUE iff OpenAIService.apiKey is set
    requests        \* the report requests: RequestSlots -> request

\* The state of the report-generation route.
reportVars == <<apiKey, requests>>

vars == <<now, supabaseAdmin, cronDestroy, appointments, notifications, isRunning,
          tasks, fired, runs, nextSerial, apiKey, requests>>

CronKinds == {"daily", "hourly"}

\* ------------------------------------------------------- pure operators

\* today.setHours(0, 0, 0, 0)
StartOfDay(t) == t - (t % Day)

\* tomorrow.setDate(tomorrow.getDate() + 1)
NextDay(today) == today + Day

\* Math.round(x / MsPerMinute): the nearest integer, halves rounded up.
RoundMinutes(ms) == (2 * ms + MsPerMinute) \div (2 * MsPerMinute)

\* The today-window query with .lte in place of .lt.
TodayQuery_lte(today, tomorrow) ==
    {a \in ApptIds :
        /\ appointments[a].scheduled_date >= today
        /\ appointments[a].scheduled_date <= tomorrow
        /\ appointments[a].status \in CandidateStatuses}

\* The rows the today-window query returns:
\* .gte(scheduled_date, today).lt(scheduled_date, tomorrow).in(status, [...])
TodayQuery(today, tomorrow) ==
    {a \in ApptIds :
        /\ appointments[a].scheduled_date >= today
        /\ appointments[a].scheduled_date < tomorrow
        /\ appointments[a].status \in CandidateStatuses}

\* The rows the soon-window query returns:
\* .gte(scheduled_date, now).lte(scheduled_date, oneHourFromNow).in(status, [...])
SoonQuery(t, oneHourFromNow) ==
    {a \in ApptIds :
        /\ appointments[a].scheduled_date >= t
        /\ appointments[a].scheduled_date <= oneHourFromNow
        /\ appointments[a].status \in CandidateStatuses}

\* timeUntilAppointment <= 60 && timeUntilAppointment > 0
SoonGuard(timeUntilAppointment) ==
    timeUntilAppointment <= SoonMinutes /\ timeUntilAppointment > 0

\* The duplicate check without its filter on type.
ExistingNotifications_anytype(appt, today) ==
    {n \in BagToSet(notifications) :
        /\ n.recipient_id \in {appt.worker_id, appt.clinician_id}
        /\ n.recipient_id # NULL
        /\ n.related_appointment_id = appt.id
        /\ n.created_at >= today}

\* The rows the duplicate check selects (before .limit(1)).
ExistingNotifications(appt, today) ==
    {n \in BagToSet(notifications) :
        /\ n.recipient_id \in {appt.worker_id, appt.clinician_id}
        /\ n.recipient_id # NULL
        /\ n.related_appointment_id = appt.id
        /\ n.type \in ReminderTypes
        /\ n.created_at >= today}

\* The variant test without its look at telehealth_info.
IsZoomMeeting_anytelehealth(appt) == appt.location = "telehealth"

\* appointment.location === 'telehealth' && appointment.telehealth_info?.zoom_meeting
IsZoomMeeting(appt) == appt.location = "telehealth" /\ appt.zoom_meeting

ReminderType(appt) ==
    IF IsZoomMeeting(appt) THEN "zoom_meeting_reminder" ELSE "appointment_reminder"

Title(kind, appt) ==
    IF kind = "today"
    THEN IF IsZoomMeeting(appt) THEN "Zoom Meeting Today" ELSE "Appointment Today"
    ELSE IF IsZoomMeeting(appt) THEN "Zoom Meeting Starting Soon"
         ELSE "Appointment Starting Soon"

\* The message templates, without their interpolated time and names.
WorkerMessage(kind, appt) ==
    IF kind = "today"
    THEN IF IsZoomMeeting(appt)
         THEN "You have a Zoom meeting scheduled for today"
         ELSE "You have an appointment scheduled for today"
    ELSE IF IsZoomMeeting(appt)
         THEN "Your Zoom meeting starts in"
         ELSE "Your appointment starts in"

ClinicianMessage(kind, appt) ==
    IF kind = "today"
    THEN IF IsZoomMeeting(appt)
         THEN "You have a Zoom meeting with"
         ELSE "You have an appointment with"
    ELSE IF IsZoomMeeting(appt)
         THEN "Your Zoom meeting with"
         ELSE "Your appointment with"

Priority(kind) == IF kind = "today" THEN "high" ELSE "urgent"

Record(kind, appt, recipient, message) ==
    [recipient_id |-> recipient,
     type |-> ReminderType(appt),
     title |-> Title(kind, appt),
     message |-> message,
     priority |-> Priority(kind),
     action_url |-> "/appointments",
     related_appointment_id |-> appt.id,
     related_case_id |-> appt.case_id]

\* if (appointment.worker_id) notifications.push({...})
WorkerRecords(kind, appt) ==
    IF appt.worker_id # NULL
    THEN <<Record(kind, appt, appt.worker_id, WorkerMessage(kind, appt))>>
    ELSE <<>>

\* The clinician record without the test of worker.
ClinicianRecords_anyworker(kind, appt) ==
    IF appt.clinician_id # NULL
    THEN <<Record(kind, appt, appt.clinician_id, ClinicianMessage(kind, appt))>>
    ELSE <<>>

\* if (appointment.clinician_id && worker) notifications.push({...})
ClinicianRecords(kind, appt) ==
    IF appt.clinician_id # NULL /\ appt.worker
    THEN <<Record(kind, appt, appt.clinician_id, ClinicianMessage(kind, appt))>>
    ELSE <<>>

\* The records of an iteration with the worker's record pushed twice.
BuildRecords_workertwice(kind, appt) ==
    WorkerRecords(kind, appt) \o WorkerRecords(kind, appt) \o ClinicianRecords(kind, appt)

\* The records one loop iteration pushes for an appointment that is not skipped.
BuildRecords(kind, appt) == WorkerRecords(kind, appt) \o ClinicianRecords(kind, appt)

\* The body of the soon-pipeline's loop for one appointment.
SoonRecords(appt, t) ==
    IF SoonGuard(RoundMinutes(appt.scheduled_date - t))
    THEN BuildRecords("soon", appt)
    ELSE <<>>

\* The soon-pipeline's whole loop: it has no await, so it is one step.
RECURSIVE SoonBatch(_, _)
SoonBatch(cands, t) ==
    IF cands = <<>> THEN <<>>
    ELSE SoonRecords(appointments[Head(cands)], t) \o SoonBatch(Tail(cands), t)

\* The orders in which the store may return a set of rows (the queries have
\* no ORDER BY): by ascending and by descending id.
Orders(S) ==
    {s \in [1..Cardinality(S) -> S] :
        \/ \A i, j \in DOMAIN s : i < j => s[i] < s[j]
        \/ \A i, j \in DOMAIN s : i < j => s[i] > s[j]}

\* A built record as the store keeps it: created_at is assigned by the store;
\* run is the serial of the invocation that created it (0: none of them).
Stored(n, t, serial) ==
    [recipient_id |-> n.recipient_id,
     type |-> n.type,
     title |-> n.title,
     message |-> n.message,
     priority |-> n.priority,
     action_url |-> n.action_url,
     related_appointment_id |-> n.related_appointment_id,
     related_case_id |-> n.related_case_id,
     created_at |-> t,
     run |-> serial]

\* The rows a batch becomes, as a bag.
RECURSIVE StoredAll(_, _, _)
StoredAll(batch, t, serial) ==
    IF batch = <<>> THEN EmptyBag
    ELSE SetToBag({Stored(Head(batch), t, serial)}) (+) StoredAll(Tail(batch), t, serial)

\* ------------------------------------------------------------ invocations

NoCalls == [query |-> 0, dupcheck |-> 0, create |-> 0]

\* A slot that holds no invocation.  Of an invocation, the slot holds where it
\* is suspended (pc), its locals (today, now, the rows of the window query in
\* cands, the loop index i, the batch in notifications) and, for the
\* properties, who called it (origin), its serial number, how it returned
\* (outcome), the store calls it made (calls) and how many of them failed.
IdleRun ==
    [pc |-> "idle", kind |-> "none", origin |-> "none", serial |-> 0,
     today |-> 0, now |-> 0, cands |-> <<>>, i |-> 0, notifications |-> <<>>,
     outcome |-> "none", calls |-> NoCalls, failures |-> 0]

\* The invocations suspended on a store operation.
InFlight == {r \in RunSlots : runs[r].pc \notin {"idle", "done"}}

FreeSlots == RunSlots \ InFlight

\* A pipeline entered without its configuration check.
Enter_unchecked(r, kind, origin) ==
    [IdleRun EXCEPT !.pc = "query", !.kind = kind, !.origin = origin,
                    !.serial = nextSerial, !.now = now,
                    !.today = IF kind = "today" THEN StartOfDay(now) ELSE 0,
                    !.calls = [NoCalls EXCEPT !.query = 1]]

\* A pipeline is entered: the configuration check, the window boundaries and
\* the window query, up to the first await.
Enter(r, kind, origin) ==
    IF ~supabaseAdmin
    THEN [IdleRun EXCEPT !.pc = "done", !.kind = kind, !.origin = origin,
                         !.serial = nextSerial, !.outcome = "skipped"]
    ELSE [IdleRun EXCEPT !.pc = "query", !.kind = kind, !.origin = origin,
                         !.serial = nextSerial, !.now = now,
                         !.today = IF kind = "today" THEN StartOfDay(now) ELSE 0,
                         !.calls = [NoCalls EXCEPT !.query = 1]]

\* An invocation begins in the lowest free slot, while fewer than
\* cap.inflight invocations are in flight and fewer than cap.runs began.
Begin(kind, origin, cap) ==
    /\ nextSerial <= cap.runs
    /\ Cardinality(InFlight) < cap.inflight
    /\ \E r \in FreeSlots :
        /\ \A q \in FreeSlots : r <= q
        /\ runs' = [runs EXCEPT ![r] = Enter(r, kind, origin)]
    /\ nextSerial' = nextSerial + 1

\* A store operation failed and the failure reached the catch block: the
\* error is logged and the invocation returns.
Caught(run) ==
    [run EXCEPT !.pc = "done", !.outcome = "failed", !.failures = @ + 1]

\* After the loop, without the test of notifications.length: the batch is
\* sent even when it is empty.
AfterLoop_always(run) ==
    [run EXCEPT !.pc = "create", !.calls.create = @ + 1]

\* After the loop: the batch is sent if it holds a record.
AfterLoop(run) ==
    IF Len(run.notifications) > 0
    THEN [run EXCEPT !.pc = "create", !.calls.create = @ + 1]
    ELSE [run EXCEPT !.pc = "done", !.outcome = "nothing"]

\* The today-pipeline's loop moves to its next appointment and issues that
\* appointment's duplicate check, or leaves the loop.
NextIteration(run) ==
    IF run.i < Len(run.cands)
    THEN [run EXCEPT !.pc = "dupcheck", !.i = @ + 1, !.calls.dupcheck = @ + 1]
    ELSE AfterLoop(run)

\* The rest of a today-pipeline iteration once the duplicate check returned
\* `existing` (the rows found; {} also when data is null).
AfterDupCheck(run, existing) ==
    IF existing # {}
    THEN NextIteration(run)
    ELSE NextIteration(
            [run EXCEPT !.notifications =
                @ \o BuildRecords("today", appointments[run.cands[run.i]])])

\* ---------------------------------------------------------------- actions

\* start without its isRunning guard: every call registers two more tasks.
start_unguarded ==
    /\ tasks' = [k \in CronKinds |-> tasks[k] + 1]
    /\ isRunning' = TRUE
    /\ UNCHANGED <<cronDestroy, reportVars>>
    /\ UNCHANGED <<now, supabaseAdmin, appointments, notifications, fired, runs,
                   nextSerial>>

\* NotificationScheduler.start
start ==
    /\ IF isRunning
       THEN UNCHANGED <<tasks, isRunning>>
       ELSE /\ tasks' = [k \in CronKinds |-> tasks[k] + 1]
            /\ isRunning' = TRUE
    /\ UNCHANGED <<cronDestroy, reportVars>>
    /\ UNCHANGED <<now, supabaseAdmin, appointments, notifications, fired, runs,
                   nextSerial>>

\* NotificationScheduler.stop.  cron.destroy() is a call on the node-cron
\* module, which is not among the sources: where the module exports such a
\* function it is taken to cancel every task; where it does not, the call
\* throws a TypeError before isRunning is cleared, and stop() leaves the
\* tasks and the flag as they were.
stop ==
    /\ IF ~isRunning
       THEN UNCHANGED <<tasks, isRunning>>
       ELSE IF cronDestroy
       THEN /\ tasks' = [k \in CronKinds |-> 0]
            /\ isRunning' = FALSE
       ELSE UNCHANGED <<tasks, isRunning>>
    /\ UNCHANGED <<cronDestroy, reportVars>>
    /\ UNCHANGED <<now, supabaseAdmin, appointments, notifications, fired, runs,
                   nextSerial>>

\* The clock reaches a later instant.
Tick ==
    /\ \E t \in ClockValues : t > now /\ now' = t
    /\ fired' = {}
    /\ UNCHANGED <<cronDestroy, reportVars>>
    /\ UNCHANGED <<supabaseAdmin, appointments, notifications, isRunning, tasks,
                   runs, nextSerial>>

\* '0 8 * * *'
DailyDue == now % Day = DailyHour * OneHour
\* '0 * * * *'
HourlyDue == now % OneHour = 0

\* The daily task's callback runs.
CronDaily(cap) ==
    /\ tasks["daily"] > 0 /\ DailyDue /\ "daily" \notin fired
    /\ Begin("today", "cron", cap)
    /\ fired' = fired \cup {"daily"}
    /\ UNCHANGED <<cronDestroy, reportVars>>
    /\ UNCHANGED <<now, supabaseAdmin, appointments, notifications, isRunning, tasks>>

\* The hourly task's callback runs.
CronHourly(cap) ==
    /\ tasks["hourly"] > 0 /\ HourlyDue /\ "hourly" \notin fired
    /\ Begin("soon", "cron", cap)
    /\ fired' = fired \cup {"hourly"}
    /\ UNCHANGED <<cronDestroy, reportVars>>
    /\ UNCHANGED <<now, supabaseAdmin, appointments, notifications, isRunning, tasks>>

\* NotificationScheduler.triggerTodaysNotifications
triggerTodaysNotifications(cap) ==
    /\ Begin("today", "manual", cap)
    /\ UNCHANGED <<cronDestroy, reportVars>>
    /\ UNCHANGED <<now, supabaseAdmin, appointments, notifications, isRunning, tasks,
                   fired>>

\* NotificationScheduler.triggerUpcomingReminders
triggerUpcomingReminders(cap) ==
    /\ Begin("soon", "manual", cap)
    /\ UNCHANGED <<cronDestroy, reportVars>>
    /\ UNCHANGED <<now, supabaseAdmin, appointments, notifications, isRunning, tasks,
                   fired>>

\* The today-window query returns: rows in some order, or an error.
TodaysAppointmentsReturn(r) ==
    /\ runs[r].pc = "query" /\ runs[r].kind = "today"
    /\ \/ runs' = [runs EXCEPT ![r] = Caught(@)]
       \/ \E cands \in Orders(TodayQuery(runs[r].today, NextDay(runs[r].today))) :
            runs' = [runs EXCEPT ![r] =
                IF Len(cands) = 0
                THEN [@ EXCEPT !.pc = "done", !.outcome = "empty"]
                ELSE NextIteration([@ EXCEPT !.cands = cands])]
    /\ UNCHANGED <<cronDestroy, reportVars>>
    /\ UNCHANGED <<now, supabaseAdmin, appointments, notifications, isRunning, tasks,
                   fired, nextSerial>>

\* The duplicate check of the current appointment returns: the rows found,
\* an error beside null data (which the code does not look at), or a rejection.
ExistingNotificationsReturn(r) ==
    /\ runs[r].pc = "dupcheck"
    /\ \/ runs' = [runs EXCEPT ![r] =
            AfterDupCheck(@,
                ExistingNotifications(appointments[@.cands[@.i]], @.today))]
       \/ runs' = [runs EXCEPT ![r] =
            AfterDupCheck([@ EXCEPT !.failures = @ + 1], {})]
       \/ runs' = [runs EXCEPT ![r] = Caught(@)]
    /\ UNCHANGED <<cronDestroy, reportVars>>
    /\ UNCHANGED <<now, supabaseAdmin, appointments, notifications, isRunning, tasks,
                   fired, nextSerial>>

\* The soon-window query returns: rows in some order, or an error; the loop
\* over the rows follows without an await.
UpcomingAppointmentsReturn(r) ==
    /\ runs[r].pc = "query" /\ runs[r].kind = "soon"
    /\ \/ runs' = [runs EXCEPT ![r] = Caught(@)]
       \/ \E cands \in Orders(SoonQuery(runs[r].now, runs[r].now + OneHour)) :
            runs' = [runs EXCEPT ![r] =
                IF Len(cands) = 0
                THEN [@ EXCEPT !.pc = "done", !.outcome = "empty"]
                ELSE AfterLoop([@ EXCEPT !.cands = cands,
                                         !.notifications = SoonBatch(cands, runs[r].now)])]
    /\ UNCHANGED <<cronDestroy, reportVars>>
    /\ UNCHANGED <<now, supabaseAdmin, appointments, notifications, isRunning, tasks,
                   fired, nextSerial>>

\* NotificationService.createBatchNotifications returns: the whole batch is
\* stored, or nothing is and the failure reaches the catch block.
CreateBatchReturn(r) ==
    /\ runs[r].pc = "create"
    /\ \/ /\ notifications' =
                notifications (+) StoredAll(runs[r].notifications, now, runs[r].serial)
          /\ runs' = [runs EXCEPT ![r] = [@ EXCEPT !.pc = "done", !.outcome = "sent"]]
       \/ /\ UNCHANGED notifications
          /\ runs' = [runs EXCEPT ![r] = Caught(@)]
    /\ UNCHANGED <<cronDestroy, reportVars>>
    /\ UNCHANGED <<now, supabaseAdmin, appointments, isRunning, tasks, fired,
                   nextSerial>>

\* ------------------------------------------------------- the report route

\* The Error messages of OpenAIService.generateSystemFlowReport.
NotConfiguredMessage ==
    "OpenAI API key not configured. Please set OPENAI_API_KEY in environment variables."
InvalidKeyMessage == "Invalid OpenAI API key. Please check your OPENAI_API_KEY."
RateLimitMessage == "OpenAI rate limit exceeded. Please try again in a few minutes."
UnreachableMessage ==
    "Unable to connect to OpenAI API. Please check your internet connection."

\* An error as the catch block reads it: status is error.response?.status
\* (0: there is no response), code is error.code, message is error.message.
Failure(status, code, message) ==
    [status |-> status, code |-> code, message |-> message]

NoFailure == Failure(0, NULL, "none")

\* The rejections of axios.post: a response with a status outside 2xx, or no
\* response at all (connection refused, name not resolved, the 60 s timeout,
\* a reset connection, an error that bears neither code nor message).
HttpFailures ==
    {Failure(st, IF st < 500 THEN "ERR_BAD_REQUEST" ELSE "ERR_BAD_RESPONSE",
             "Request failed with status code " \o ToString(st)) :
        st \in {400, 401, 403, 429, 500, 503}}
NetworkFailures ==
    {Failure(0, "ECONNREFUSED", "connect ECONNREFUSED"),
     Failure(0, "ENOTFOUND", "getaddrinfo ENOTFOUND api.openai.com"),
     Failure(0, "ECONNABORTED", "timeout of 60000ms exceeded"),
     Failure(0, "ECONNRESET", "socket hang up"),
     Failure(0, NULL, "")}
UpstreamFailures == HttpFailures \cup NetworkFailures

\* What the catch block throws when every failure is taken for the last class.
FlowReportError_generic(error) ==
    "OpenAI API error: " \o (IF error.message # "" THEN error.message
                             ELSE "Unknown error")

\* The message of the Error the catch block of generateSystemFlowReport throws.
FlowReportError(error) ==
    IF error.status = 401 THEN InvalidKeyMessage
    ELSE IF error.status = 429 THEN RateLimitMessage
    ELSE IF error.code = "ECONNREFUSED" \/ error.code = "ENOTFOUND"
         THEN UnreachableMessage
    ELSE "OpenAI API error: " \o (IF error.message # "" THEN error.message
                                  ELSE "Unknown error")

\* An HTTP answer of generateFlowReport: its status, the error field of its
\* body (NULL: none) and whether the body carries a report.
Answer(status, error, report) == [status |-> status, error |-> error, report |-> report]

NoAnswer == Answer(0, NULL, FALSE)

\* The catch block of generateFlowReport.
AnswerFailure(message) ==
    Answer(500,
           IF message # "" THEN message ELSE "Failed to generate system flow report",
           FALSE)

\* A slot that holds no request.  Of a request, the slot holds where it is
\* suspended (pc), how many chat-completion calls it made (calls), the
\* rejection of the call if it was rejected (failure) and the answer sent.
IdleRequest == [pc |-> "idle", calls |-> 0, failure |-> NoFailure, answer |-> NoAnswer]

\* What converting to a primitive throws for an object that has no callable
\* toString or valueOf, such as the JSON value {"toString": 1}.
UnprintableMessage == "Cannot convert object to primitive value"

\* The elements of systemData.teamKPI: an object whose fields convert to
\* primitives ("kpi"), null, an object whose totalAssessments does not
\* convert ("badTotal"), an object whose completionRate does not ("badRate").
KpiKinds == {"kpi", NULL, "badTotal", "badRate"}

\* teamKPI as the sequence of its elements; <<>> also stands for a teamKPI
\* that is absent or not an array.
TeamKPIs == {<<>>} \cup {<<k>> : k \in KpiKinds} \cup {<<k, l>> : k, l \in KpiKinds}

\* A request as the route reads it: parsed is FALSE iff req.body is
\* undefined, systemData is FALSE iff the body holds no (truthy) systemData;
\* summaries is FALSE iff an interpolated field of workReadinessStats or of
\* caseStats does not convert to a primitive, statistics is FALSE iff one of
\* statistics does not.
Body(parsed, systemData, summaries, teamKPI, statistics) ==
    [parsed |-> parsed, systemData |-> systemData, summaries |-> summaries,
     teamKPI |-> teamKPI, statistics |-> statistics]

Bodies ==
    {Body(FALSE, FALSE, TRUE, <<>>, TRUE), Body(TRUE, FALSE, TRUE, <<>>, TRUE)}
        \cup {Body(TRUE, TRUE, su, k, st) :
                 su \in BOOLEAN, k \in TeamKPIs, st \in BOOLEAN}

\* What the first reduce over teamKPI throws, from its element k on: it reads
\* kpi.totalAssessments of each element in turn and adds it to the sum.
RECURSIVE TotalAssessments(_, _)
TotalAssessments(teamKPI, k) ==
    IF k > Len(teamKPI) THEN NoFailure
    ELSE IF teamKPI[k] = NULL
    THEN Failure(0, NULL, "Cannot read properties of null (reading 'totalAssessments')")
    ELSE IF teamKPI[k] = "badTotal" THEN Failure(0, NULL, UnprintableMessage)
    ELSE TotalAssessments(teamKPI, k + 1)

\* What buildAnalysisPrompt throws (NoFailure: it returns the prompt).  It
\* builds the summaries of workReadinessStats and caseStats, then reduces
\* teamKPI by totalAssessments and by completionRate, then interpolates
\* statistics into the prompt.
BuildAnalysisPrompt(body) ==
    IF ~body.summaries THEN Failure(0, NULL, UnprintableMessage)
    ELSE IF TotalAssessments(body.teamKPI, 1) # NoFailure
    THEN TotalAssessments(body.teamKPI, 1)
    ELSE IF \E k \in DOMAIN body.teamKPI : body.teamKPI[k] = "badRate"
    THEN Failure(0, NULL, UnprintableMessage)
    ELSE IF ~body.statistics THEN Failure(0, NULL, UnprintableMessage)
    ELSE NoFailure

\* The response axios.post resolves with, by the first link of
\* response.data.choices[0].message.content that is not an object: `at` is
\* that link and `value` what it holds (undefined, null, a string, or
\* "other": a number, a boolean, an object).
Response(at, value) == [at |-> at, value |-> value]

Responses ==
    {Response(at, v) : at \in {"data", "choices", "choices[0]", "message"},
                       v \in {"undefined", "null"}}
        \cup {Response("content", v) : v \in {"undefined", "null", "string", "other"}}

\* The property read of the value at a link.
ReadOf(at) ==
    CASE at = "data" -> "choices"
      [] at = "choices" -> "0"
      [] at = "choices[0]" -> "message"
      [] at = "message" -> "content"
      [] at = "content" -> "substring"

\* What reading the report out of a response throws (NoFailure: a report is
\* returned).  A content that is no string fails aiResponse.match inside the
\* try block of parseAIResponse, which catches it, and then
\* aiResponse.substring after it, which nothing in parseAIResponse catches.
ParseResponse(response) ==
    IF response.value = "string" THEN NoFailure
    ELSE IF response.value = "other"
    THEN Failure(0, NULL, "aiResponse.substring is not a function")
    ELSE Failure(0, NULL,
            "Cannot read properties of " \o response.value \o " (reading '"
                \o ReadOf(response.at) \o "')")

\* POST /api/admin/generate-flow-report arrives and runs up to the await of
\* axios.post: Object.keys(req.body) throws on a request without a body; a
\* body without systemData is answered 400; a missing API key and a throw of
\* buildAnalysisPrompt reach the catch block of the service before any call.
generateFlowReport(q) ==
    /\ requests[q].pc = "idle"
    /\ \E body \in Bodies :
        requests' = [requests EXCEPT ![q] =
            IF ~body.parsed
            THEN [@ EXCEPT !.pc = "done",
                           !.answer = AnswerFailure(
                                         "Cannot convert undefined or null to object")]
            ELSE IF ~body.systemData
            THEN [@ EXCEPT !.pc = "done",
                           !.answer = Answer(400, "System data is required", FALSE)]
            ELSE IF ~apiKey
            THEN [@ EXCEPT !.pc = "done",
                           !.answer = AnswerFailure(FlowReportError(
                                         Failure(0, NULL, NotConfiguredMessage)))]
            ELSE IF BuildAnalysisPrompt(body) # NoFailure
            THEN [@ EXCEPT !.pc = "done",
                           !.answer = AnswerFailure(FlowReportError(
                                         BuildAnalysisPrompt(body)))]
            ELSE [@ EXCEPT !.pc = "post", !.calls = @ + 1]]
    /\ UNCHANGED <<cronDestroy, apiKey>>
    /\ UNCHANGED <<now, supabaseAdmin, appointments, notifications, isRunning, tasks,
                   fired, runs, nextSerial>>

\* axios.post resolves: the report is read out of the response, or reading
\* it throws a TypeError that the catch block of the service takes for a
\* failure of the last class.
PostResolves(q) ==
    /\ requests[q].pc = "post"
    /\ \E response \in Responses :
        requests' = [requests EXCEPT ![q] =
            IF ParseResponse(response) = NoFailure
            THEN [@ EXCEPT !.pc = "done", !.answer = Answer(200, NULL, TRUE)]
            ELSE [@ EXCEPT !.pc = "done",
                           !.answer = AnswerFailure(FlowReportError(
                                         ParseResponse(response)))]]
    /\ UNCHANGED <<cronDestroy, apiKey>>
    /\ UNCHANGED <<now, supabaseAdmin, appointments, notifications, isRunning, tasks,
                   fired, runs, nextSerial>>

\* axios.post rejects: the catch block of the service throws the classified
\* Error and the catch block of the route answers with it.
PostRejects(q) ==
    /\ requests[q].pc = "post"
    /\ \E error \in UpstreamFailures :
        requests' = [requests EXCEPT ![q] =
            [@ EXCEPT !.pc = "done", !.failure = error,
                      !.answer = AnswerFailure(FlowReportError(error))]]
    /\ UNCHANGED <<cronDestroy, apiKey>>
    /\ UNCHANGED <<now, supabaseAdmin, appointments, notifications, isRunning, tasks,
                   fired, runs, nextSerial>>

\* ---------------------------------------------------------- initial states

\* The associations of an appointment: worker_id, the joined worker row
\* (worker: TRUE iff it was resolved) and clinician_id.  A null worker_id
\* joins to no row.
Parties ==
    {p \in [worker_id : WorkerIds \cup {NULL}, worker : BOOLEAN,
            clinician_id : ClinicianIds \cup {NULL}] :
        p.worker => p.worker_id # NULL}

\* zoom_meeting: TRUE iff telehealth_info?.zoom_meeting is truthy.
Variants == [location : Locations, zoom_meeting : BOOLEAN]

Row(a, t, st, p, v) ==
    [id |-> a, scheduled_date |-> t, status |-> st,
     location |-> v.location, zoom_meeting |-> v.zoom_meeting,
     worker_id |-> p.worker_id, worker |-> p.worker,
     clinician_id |-> p.clinician_id, case_id |-> 100 + a]

\* The appointment tables in which appointment 1 takes its time, status,
\* associations and variant from `first` and every other one from `others`.
Tables(first, others) ==
    {[a \in ApptIds |-> Row(a, f[a][1], f[a][2], f[a][3], f[a][4])] :
        f \in {g \in [ApptIds -> first \cup others] :
                  /\ g[1] \in first
                  /\ \A a \in ApptIds \ {1} : g[a] \in others}}

\* A row of the notifications table that no invocation of the model wrote.
Prior(recipient, type, t) ==
    [recipient_id |-> recipient, type |-> type, title |-> "prior",
     message |-> "prior", priority |-> "high", action_url |-> "/appointments",
     related_appointment_id |-> 1, related_case_id |-> 101,
     created_at |-> t, run |-> 0]

\* The notification tables a behaviour may start from: empty, or one row
\* about appointment 1: a reminder of today for its worker or its clinician,
\* a reminder of yesterday, or a row of another type.
PriorStores ==
    {EmptyBag,
     SetToBag({Prior("w1", "zoom_meeting_reminder", T0)}),
     SetToBag({Prior("c1", "appointment_reminder", T0)}),
     SetToBag({Prior("w1", "appointment_reminder", T0 - 1)}),
     SetToBag({Prior("w1", "case_assigned", T0)})}

InitWith(tables, stores, configured) ==
    /\ now = T8
    /\ supabaseAdmin \in configured
    /\ cronDestroy \in BOOLEAN
    /\ appointments \in tables
    /\ notifications \in stores
    /\ isRunning = FALSE
    /\ tasks = [k \in CronKinds |-> 0]
    /\ fired = {}
    /\ runs = [r \in RunSlots |-> IdleRun]
    /\ nextSerial = 1
    /\ apiKey = TRUE
    /\ requests = [q \in RequestSlots |-> IdleRequest]

\* The actions, with the invocations capped by `cap`.
NextWith(cap) ==
    \/ start
    \/ stop
    \/ Tick
    \/ CronDaily(cap)
    \/ CronHourly(cap)
    \/ triggerTodaysNotifications(cap)
    \/ triggerUpcomingReminders(cap)
    \/ \E r \in RunSlots : TodaysAppointmentsReturn(r)
    \/ \E r \in RunSlots : ExistingNotificationsReturn(r)
    \/ \E r \in RunSlots : UpcomingAppointmentsReturn(r)
    \/ \E r \in RunSlots : CreateBatchReturn(r)

FullParty == [worker_id |-> "w1", worker |-> TRUE, clinician_id |-> "c1"]
ClinicVariant == [location |-> "clinic", zoom_meeting |-> FALSE]

\* Every invocation may be in flight at once.
Overlapping == [inflight |-> MaxRuns, runs |-> MaxRuns]
\* One invocation returns before the next begins.
Sequential == [inflight |-> 1, runs |-> SeqRuns]

\* Invocations may overlap; appointment 1 is at 09:00 with both parties, the
\* other appointments are cancelled.
Init ==
    InitWith(Tables({T9} \X {"scheduled"} \X {FullParty} \X {ClinicVariant},
                    {T9} \X {"cancelled"} \X {FullParty} \X {ClinicVariant}),
             {EmptyBag}, BOOLEAN)
Next == NextWith(Overlapping)
Spec == Init /\ [][Next]_vars

\* Invocations never overlap; appointment 1 takes every combination of
\* associations, the others have both parties, and the notifications table
\* may hold an earlier row.
InitSeq ==
    InitWith(Tables({T9} \X {"scheduled"} \X Parties \X {ClinicVariant},
                    {T9} \X {"scheduled"} \X {FullParty} \X {ClinicVariant}),
             PriorStores, BOOLEAN)
NextSeq == NextWith(Sequential)
SpecSeq == InitSeq /\ [][NextSeq]_vars

\* The scheduled times around the boundaries of the two windows.
WindowTimes ==
    {T0 - 1, T0, T0 + Day - 1, T0 + Day,
     T8 - MsPerMinute, T8, T8 + 20 * 1000, T8 + 30 * 1000,
     T9, T9 + 1, T8 + 61 * MsPerMinute}

\* Invocations never overlap; appointment 1 takes every time and status.
InitWin ==
    InitWith(Tables(WindowTimes \X Statuses \X {FullParty} \X {ClinicVariant},
                    {T9} \X {"scheduled"} \X {FullParty} \X {ClinicVariant}),
             {EmptyBag}, {TRUE})
NextWin == NextWith(Sequential)
SpecWin == InitWin /\ [][NextWin]_vars

ZoomVariant == [location |-> "telehealth", zoom_meeting |-> TRUE]

\* Invocations never overlap; appointment 1 takes every location, with and
\* without zoom_meeting, and has a worker alone or both parties; the other
\* appointments are Zoom meetings with both parties.
InitVariant ==
    InitWith(Tables({T9} \X {"scheduled"}
                        \X {FullParty,
                            [worker_id |-> "w1", worker |-> TRUE, clinician_id |-> NULL]}
                        \X Variants,
                    {T9} \X {"scheduled"} \X {FullParty} \X {ZoomVariant}),
             {EmptyBag}, {TRUE})
NextVariant == NextWith(Sequential)
SpecVariant == InitVariant /\ [][NextVariant]_vars

\* The pipelines entered by their manual triggers alone, every invocation
\* possibly in flight at once, at one instant of the clock; appointment 1
\* is at 09:00 with both parties, the other appointments are cancelled.
InitRace ==
    InitWith(Tables({T9} \X {"scheduled"} \X {FullParty} \X {ClinicVariant},
                    {T9} \X {"cancelled"} \X {FullParty} \X {ClinicVariant}),
             {EmptyBag}, {TRUE})
NextRace ==
    \/ triggerTodaysNotifications(Overlapping)
    \/ triggerUpcomingReminders(Overlapping)
    \/ \E r \in RunSlots : TodaysAppointmentsReturn(r)
    \/ \E r \in RunSlots : ExistingNotificationsReturn(r)
    \/ \E r \in RunSlots : UpcomingAppointmentsReturn(r)
    \/ \E r \in RunSlots : CreateBatchReturn(r)
SpecRace == InitRace /\ [][NextRace]_vars

NoParty == [worker_id |-> NULL, worker |-> FALSE, clinician_id |-> NULL]

\* Invocations never overlap; every appointment is scheduled or cancelled,
\* appointment 1 with both parties or with none, the others with both.
InitBatch ==
    InitWith(Tables({T9} \X {"scheduled", "cancelled"} \X {FullParty, NoParty}
                        \X {ClinicVariant},
                    {T9} \X {"scheduled", "cancelled"} \X {FullParty}
                        \X {ClinicVariant}),
             {EmptyBag}, {TRUE})
NextBatch == NextWith(Sequential)
SpecBatch == InitBatch /\ [][NextBatch]_vars

\* The report route alone: the scheduler is stopped and its tables are
\* empty of live appointments; the API key is set or not.
InitReport ==
    /\ now = T8
    /\ supabaseAdmin = TRUE
    /\ cronDestroy = TRUE
    /\ appointments \in Tables({T9} \X {"cancelled"} \X {FullParty} \X {ClinicVariant},
                               {T9} \X {"cancelled"} \X {FullParty} \X {ClinicVariant})
    /\ notifications = EmptyBag
    /\ isRunning = FALSE
    /\ tasks = [k \in CronKinds |-> 0]
    /\ fired = {}
    /\ runs = [r \in RunSlots |-> IdleRun]
    /\ nextSerial = 1
    /\ apiKey \in BOOLEAN
    /\ requests = [q \in RequestSlots |-> IdleRequest]
NextReport ==
    \/ \E q \in RequestSlots : generateFlowReport(q)
    \/ \E q \in RequestSlots : PostResolves(q)
    \/ \E q \in RequestSlots : PostRejects(q)
SpecReport == InitReport /\ [][NextReport]_vars

\* ------------------------------------------------------------- properties

\* A step in which a cron task's callback enters a pipeline.
CronRunBegins ==
    /\ nextSerial' = nextSerial + 1
    /\ \E r \in RunSlots : runs'[r].serial = nextSerial /\ runs'[r].origin = "cron"

\* C3: after any sequence of start() and stop() calls there are exactly two
\* live tasks, one daily and one hourly, while the scheduler is Running and
\* none while it is Stopped; start() called while Running registers no task
\* and leaves the state Running.
C3_TriggersMatchState ==
    /\ [](/\ isRunning => \A k \in CronKinds : tasks[k] = 1
          /\ ~isRunning => \A k \in CronKinds : tasks[k] = 0)
    /\ [][(start /\ isRunning) => (tasks' = tasks /\ isRunning')]_vars

\* C3 witness: the scheduler was started, both tasks fired, and it is stopped.
C3_Witness ==
    ~isRunning /\ fired = CronKinds /\ \A k \in CronKinds : tasks[k] = 0

\* A call of stop() that leaves the scheduler Stopped and without a task.
StopsFromRunning == stop /\ ~isRunning' /\ \A k \in CronKinds : tasks'[k] = 0

\* C4 (the claim as stated): stop() called while Running cancels every task
\* and moves the state to Stopped; no cron callback enters a pipeline while
\* the state is Stopped; stop() called while Stopped changes neither the
\* state nor the tasks.  A call of stop() that throws changes nothing, so
\* that it cancels is stated as: while Running, stop() can take the
\* scheduler to Stopped.
C4_StopCancels ==
    /\ [](isRunning => ENABLED StopsFromRunning)
    /\ [][/\ (stop /\ isRunning) => (~isRunning' /\ \A k \in CronKinds : tasks'[k] = 0)
          /\ (stop /\ ~isRunning) => (~isRunning' /\ tasks' = tasks)
          /\ CronRunBegins => isRunning]_vars

Recipients == WorkerIds \cup ClinicianIds

Range(seq) == {seq[k] : k \in DOMAIN seq}

\* The reminder rows of the table for a recipient and an appointment that
\* were created at or after `since`.
ReminderRows(rcp, a, since) ==
    {n \in BagToSet(notifications) :
        /\ n.recipient_id = rcp
        /\ n.related_appointment_id = a
        /\ n.type \in ReminderTypes
        /\ n.created_at >= since}

\* How many rows of `rows` the table holds, copies counted.
CountRows(rows) == BagCardinality([n \in rows |-> CopiesIn(n, notifications)])

\* The rows among `rows` that invocation `serial` created, and the others.
CreatedBy(serial, rows) == {n \in rows : n.run = serial}
NotCreatedBy(serial, rows) == {n \in rows : n.run # serial}

\* The records of a batch about appointment a.
BatchFor(batch, a) == {k \in DOMAIN batch : batch[k].related_appointment_id = a}

\* The reminder rows about appointment a, created since the start of the
\* day of invocation `run` and not by it, addressed to one of a's parties.
PriorForEither(run, a) ==
    NotCreatedBy(run.serial,
        UNION {ReminderRows(rcp, a, run.now - (run.now % Day)) :
                 rcp \in {appointments[a].worker_id, appointments[a].clinician_id}
                         \ {NULL}})

\* The window query of the invocation returned rows or an empty result.
QueryReturned(run) ==
    \/ run.pc \in {"dupcheck", "create"}
    \/ run.pc = "done" /\ run.outcome \in {"empty", "nothing", "sent"}
    \/ run.pc = "done" /\ run.calls.dupcheck + run.calls.create > 0

\* The invocation returned without reaching its catch block.
ReturnedNormally(run) == run.pc = "done" /\ run.outcome \in {"nothing", "sent"}

\* The invocation returned and none of its store operations failed.
Completed(run) == ReturnedNormally(run) /\ run.failures = 0

\* C1 (the claim as stated): whatever non-overlapping invocations of the two
\* pipelines ran today, the table holds at most one reminder row created
\* today for any recipient and appointment.
C1_AtMostOnePerDay ==
    \A rcp \in Recipients, a \in ApptIds :
        CountRows(ReminderRows(rcp, a, now - (now % Day))) <= 1

\* C2 (the claim as stated): when a today-pipeline invocation whose batch was
\* stored is followed, the same day, by another one, the second creates no
\* row for a recipient and appointment the first created a row for.
C2_SecondRunCreatesNothing ==
    \A n1, n2 \in BagToSet(notifications) :
        ~ /\ n1.run > 0 /\ n2.run = n1.run + 1
          /\ n1.priority = "high" /\ n2.priority = "high"
          /\ n1.created_at \div Day = n2.created_at \div Day
          /\ n1.recipient_id = n2.recipient_id
          /\ n1.related_appointment_id = n2.related_appointment_id

\* C5 (the claim as stated): a today-pipeline invocation puts no record in
\* its batch for an appointment for which a reminder row created today and
\* addressed to its worker or its clinician already exists.
C5_SkipsNotifiedAppointment ==
    \A r \in RunSlots : \A a \in ApptIds :
        (runs[r].kind = "today" /\ PriorForEither(runs[r], a) # {})
            => BatchFor(runs[r].notifications, a) = {}

\* C9 (the claim as stated): an invocation one of whose store operations
\* failed is aborted: it has returned through the catch block and created
\* no row.
C9_FailureAborts ==
    \A r \in RunSlots :
        runs[r].failures > 0 =>
            /\ runs[r].pc = "done" /\ runs[r].outcome = "failed"
            /\ CreatedBy(runs[r].serial, BagToSet(notifications)) = {}

\* C6 (the claim as stated, for the invocations that meet no store failure):
\* a today-pipeline invocation creates exactly one row for every candidate
\* appointment and each of its parties for whom no reminder row created
\* today existed.
C6_OnePerUnnotifiedRecipient ==
    \A r \in RunSlots :
        (runs[r].kind = "today" /\ Completed(runs[r])) =>
            \A a \in Range(runs[r].cands) :
                \A rcp \in {appointments[a].worker_id, appointments[a].clinician_id}
                           \ {NULL} :
                    LET rows == ReminderRows(rcp, a, runs[r].now - (runs[r].now % Day))
                    IN  NotCreatedBy(runs[r].serial, rows) = {}
                            => CountRows(CreatedBy(runs[r].serial, rows)) = 1

\* C6 (amended): a today-pipeline invocation that returns without reaching
\* its catch block (its window query and its batch-create succeed and no
\* read rejects) creates, for every candidate appointment whose worker and
\* clinician are different users and for which no reminder row created
\* today existed for its worker or for its clinician, exactly one row
\* addressed to the worker if there is one, exactly one addressed to the
\* clinician if there is one and the worker row was resolved, and no other
\* row for the appointment.  It says nothing of an appointment for which
\* such a row existed.  WorkerIds and ClinicianIds are disjoint, so the
\* parties of every appointment of the model are different users.
C6_OnePerPartyUnlessSkipped ==
    \A r \in RunSlots :
        (runs[r].kind = "today" /\ ReturnedNormally(runs[r])) =>
            \A a \in Range(runs[r].cands) :
                ( /\ PriorForEither(runs[r], a) = {}
                  /\ \/ appointments[a].worker_id = NULL
                     \/ appointments[a].worker_id # appointments[a].clinician_id ) =>
                    LET A == appointments[a]
                        rowsFor(rcp) ==
                            CreatedBy(runs[r].serial, ReminderRows(rcp, a, 0))
                    IN  /\ A.worker_id # NULL
                            => CountRows(rowsFor(A.worker_id)) = 1
                        /\ A.clinician_id # NULL
                            => CountRows(rowsFor(A.clinician_id)) =
                                 IF A.worker THEN 1 ELSE 0
                        /\ CountRows(CreatedBy(runs[r].serial,
                              {n \in BagToSet(notifications) :
                                  n.related_appointment_id = a})) =
                             (IF A.worker_id # NULL THEN 1 ELSE 0)
                             + (IF A.clinician_id # NULL /\ A.worker THEN 1 ELSE 0)

\* C6 witness: a today-pipeline invocation returned after it stored one row
\* for the worker and one for the clinician of an appointment, while an
\* earlier row of another type addressed to that worker existed.
C6_Witness ==
    \E r \in RunSlots :
        /\ runs[r].kind = "today" /\ Completed(runs[r])
        /\ 1 \in Range(runs[r].cands)
        /\ \E n \in BagToSet(notifications) :
              n.run = 0 /\ n.type \notin ReminderTypes /\ n.recipient_id = "w1"
        /\ CountRows(CreatedBy(runs[r].serial, ReminderRows("w1", 1, 0))) = 1
        /\ CountRows(CreatedBy(runs[r].serial, ReminderRows("c1", 1, 0))) = 1

\* C7: once its window query returned, the candidates of a today-pipeline
\* invocation are exactly the appointments whose status is scheduled or
\* confirmed and whose scheduled time lies in the calendar day in which the
\* invocation began: from the start of that day up to, and not including,
\* the start of the next one.
C7_TodayCandidates ==
    \A r \in RunSlots :
        (runs[r].kind = "today" /\ QueryReturned(runs[r])) =>
            LET dayStart == (runs[r].now \div Day) * Day
            IN  Range(runs[r].cands) =
                  {a \in ApptIds :
                      /\ appointments[a].status \in {"scheduled", "confirmed"}
                      /\ dayStart <= appointments[a].scheduled_date
                      /\ appointments[a].scheduled_date < dayStart + 24 * 60 * 60 * 1000}

\* C7 witness: the window query of a today-pipeline invocation returned
\* appointment 2 and not appointment 1, which is scheduled or confirmed and
\* lies exactly at the start of the next day.
C7_Witness ==
    \E r \in RunSlots :
        /\ runs[r].kind = "today" /\ QueryReturned(runs[r])
        /\ appointments[1].status \in CandidateStatuses
        /\ appointments[1].scheduled_date = T0 + Day
        /\ Range(runs[r].cands) = {2}

\* C8 (the claim as stated): once its window query returned, a soon-pipeline
\* invocation has built records for an appointment that is scheduled or
\* confirmed and has a worker if and only if the appointment starts more
\* than 0 and at most 60 minutes after the invocation's now.
C8_SoonWindow ==
    \A r \in RunSlots :
        (runs[r].kind = "soon" /\ QueryReturned(runs[r])) =>
            \A a \in ApptIds :
                (/\ appointments[a].status \in {"scheduled", "confirmed"}
                 /\ appointments[a].worker_id # NULL) =>
                    (BatchFor(runs[r].notifications, a) # {}
                        <=> /\ 0 < appointments[a].scheduled_date - runs[r].now
                            /\ appointments[a].scheduled_date - runs[r].now
                                 <= 60 * MsPerMinute)

\* A record or row addressed to the clinician of its appointment.
ToClinician(n) ==
    n.recipient_id = appointments[n.related_appointment_id].clinician_id

\* C10: in both pipelines every record of a batch, and every row an
\* invocation stored, that is addressed to the clinician of its appointment
\* belongs to an appointment that has a clinician and whose worker row was
\* resolved.
C10_ClinicianNeedsWorker ==
    /\ \A r \in RunSlots : \A k \in DOMAIN runs[r].notifications :
          LET n == runs[r].notifications[k]
          IN  n.recipient_id \in ClinicianIds =>
                /\ ToClinician(n)
                /\ appointments[n.related_appointment_id].worker
    /\ \A n \in BagToSet(notifications) :
          (n.run > 0 /\ n.recipient_id \in ClinicianIds) =>
                /\ ToClinician(n)
                /\ appointments[n.related_appointment_id].worker

\* C10 witness: a soon-pipeline invocation built the clinician's record for
\* appointment 2 and none for appointment 1, which has a clinician and a
\* worker_id whose row was not resolved, after a today-pipeline invocation
\* had stored rows the same way.
C10_Witness ==
    \E r \in RunSlots :
        /\ runs[r].kind = "soon" /\ runs[r].pc = "create"
        /\ Range(runs[r].cands) = {1, 2}
        /\ appointments[1].clinician_id = "c1" /\ ~appointments[1].worker
        /\ appointments[1].worker_id = "w1"
        /\ \E k \in BatchFor(runs[r].notifications, 2) :
              runs[r].notifications[k].recipient_id = "c1"
        /\ \A k \in BatchFor(runs[r].notifications, 1) :
              runs[r].notifications[k].recipient_id = "w1"
        /\ \E n \in BagToSet(notifications) :
              n.run > 0 /\ n.priority = "high" /\ n.recipient_id = "c1"
                 /\ n.related_appointment_id = 2
        /\ \A n \in BagToSet(notifications) :
              n.related_appointment_id = 1 => n.recipient_id = "w1"

\* C11: when the store client is not configured, every invocation of either
\* pipeline has returned normally as soon as it was entered, having issued
\* no window query, no duplicate check and no batch-create call, and no
\* step changes the notifications table.
C11_UnconfiguredShortCircuits ==
    /\ [](~supabaseAdmin =>
            \A r \in RunSlots :
                runs[r].pc # "idle" =>
                    /\ runs[r].pc = "done" /\ runs[r].outcome = "skipped"
                    /\ runs[r].calls = NoCalls
                    /\ runs[r].failures = 0)
    /\ [][~supabaseAdmin => notifications' = notifications]_vars

\* C11 witness: without a store client, both cron tasks fired at this
\* instant, the two invocations they entered (a today-pipeline and a
\* soon-pipeline one) returned, and the table still holds the one row it
\* began with.
C11_Witness ==
    /\ ~supabaseAdmin
    /\ fired = CronKinds /\ nextSerial = 3
    /\ \E r \in RunSlots :
          runs[r].serial = 2 /\ runs[r].origin = "cron" /\ runs[r].pc = "done"
    /\ notifications = SetToBag({Prior("w1", "zoom_meeting_reminder", T0)})

\* The message of the failure the service raises for a rejection of the
\* chat-completion call, by the class of the rejection.
MessageByClass(e) ==
    CASE e.status = 401 -> "Invalid OpenAI API key. Please check your OPENAI_API_KEY."
      [] e.status = 429 ->
            "OpenAI rate limit exceeded. Please try again in a few minutes."
      [] e.status \notin {401, 429} /\ e.code \in {"ECONNREFUSED", "ENOTFOUND"} ->
            "Unable to connect to OpenAI API. Please check your internet connection."
      [] OTHER ->
            IF e.message = "" THEN "OpenAI API error: Unknown error"
            ELSE "OpenAI API error: " \o e.message

\* C12: a request whose chat-completion call was rejected made that one
\* upstream call and no other, and was answered with status 500, without a
\* report, and with the message of the rejection's class: invalid API key
\* for HTTP 401, rate limit exceeded for HTTP 429, unable to connect for the
\* codes ECONNREFUSED and ENOTFOUND, the generic OpenAI API error otherwise.
C12_UpstreamFailureSurfaces ==
    \A q \in RequestSlots :
        requests[q].failure # NoFailure =>
            /\ requests[q].pc = "done"
            /\ requests[q].calls = 1
            /\ requests[q].answer.status = 500
            /\ ~requests[q].answer.report
            /\ requests[q].answer.error = MessageByClass(requests[q].failure)

\* C12 witness: one request was answered after its call was rejected with
\* HTTP 429, another after its call could not resolve the host name.
C12_Witness ==
    \E q1, q2 \in RequestSlots :
        /\ requests[q1].pc = "done" /\ requests[q1].failure.status = 429
        /\ requests[q1].answer.error = RateLimitMessage
        /\ requests[q2].pc = "done" /\ requests[q2].failure.code = "ENOTFOUND"
        /\ requests[q2].answer.error = UnreachableMessage

\* The appointment of a record is a remote meeting: its location is
\* telehealth and its telehealth_info holds a zoom_meeting.
RemoteMeeting(n) ==
    /\ appointments[n.related_appointment_id].location = "telehealth"
    /\ appointments[n.related_appointment_id].zoom_meeting

\* A record or row in the remote-meeting variant, and in the in-person one.
RemoteTemplate(n) ==
    /\ n.type = "zoom_meeting_reminder"
    /\ n.title \in {"Zoom Meeting Today", "Zoom Meeting Starting Soon"}
    /\ n.message \in {"You have a Zoom meeting scheduled for today",
                      "You have a Zoom meeting with",
                      "Your Zoom meeting starts in",
                      "Your Zoom meeting with"}
InPersonTemplate(n) ==
    /\ n.type = "appointment_reminder"
    /\ n.title \in {"Appointment Today", "Appointment Starting Soon"}
    /\ n.message \in {"You have an appointment scheduled for today",
                      "You have an appointment with",
                      "Your appointment starts in",
                      "Your appointment with"}

\* C13: in both pipelines every record of a batch and every row an
\* invocation stored, addressed to the worker or to the clinician, has the
\* remote-meeting type, title and message if its appointment is at
\* telehealth and holds a zoom_meeting, and the in-person ones in every
\* other case, telehealth without zoom_meeting included.
C13_VariantByLocationAndMetadata ==
    /\ \A r \in RunSlots : \A k \in DOMAIN runs[r].notifications :
          LET n == runs[r].notifications[k]
          IN  IF RemoteMeeting(n) THEN RemoteTemplate(n) ELSE InPersonTemplate(n)
    /\ \A n \in BagToSet(notifications) :
          n.run > 0 =>
              IF RemoteMeeting(n) THEN RemoteTemplate(n) ELSE InPersonTemplate(n)

\* C13 witness: a today-pipeline invocation stored in-person rows for the
\* worker and the clinician of appointment 1, which is at telehealth without
\* a zoom_meeting, and a soon-pipeline invocation then built in-person
\* records for them and Zoom records for the two parties of appointment 2.
C13_Witness ==
    \E r \in RunSlots :
        /\ runs[r].kind = "soon" /\ runs[r].pc = "create"
        /\ appointments[1].location = "telehealth" /\ ~appointments[1].zoom_meeting
        /\ {runs[r].notifications[k].recipient_id :
               k \in BatchFor(runs[r].notifications, 1)} = {"w1", "c1"}
        /\ \A k \in BatchFor(runs[r].notifications, 1) :
               runs[r].notifications[k].type = "appointment_reminder"
        /\ {runs[r].notifications[k].recipient_id :
               k \in BatchFor(runs[r].notifications, 2)} = {"w1", "c1"}
        /\ \A k \in BatchFor(runs[r].notifications, 2) :
               runs[r].notifications[k].title = "Zoom Meeting Starting Soon"
        /\ \E n \in BagToSet(notifications) :
               /\ n.run > 0 /\ n.related_appointment_id = 1
               /\ n.recipient_id = "c1" /\ n.title = "Appointment Today"

\* The reminder rows for a recipient and an appointment that invocations
\* created in the day of `now`.
CreatedToday(rcp, a) ==
    {n \in ReminderRows(rcp, a, now - (now % Day)) : n.run > 0}

\* C14 (the claim as stated): however the invocations of the two pipelines
\* overlap, they create in one day at most two reminder rows for any
\* recipient and appointment.
C14_AtMostTwoPerDay ==
    \A rcp \in Recipients, a \in ApptIds : CountRows(CreatedToday(rcp, a)) <= 2

\* C14 (amended): however the invocations of the two pipelines overlap, each
\* of them creates at most one reminder row for any recipient and
\* appointment (the worker and the clinician being different users), so
\* that the rows created in one day for a recipient and an appointment are
\* at most as many as the invocations that began that day.
C14_AtMostOnePerInvocation ==
    \A rcp \in Recipients, a \in ApptIds :
        /\ \A serial \in 1..(nextSerial - 1) :
              CountRows(CreatedBy(serial, CreatedToday(rcp, a))) <= 1
        /\ CountRows(CreatedToday(rcp, a)) <= nextSerial - 1

\* C14 witness: three today-pipeline invocations, none of whose store
\* operations failed, overlapped and each created a reminder row for the
\* worker of appointment 1.
C14_Witness ==
    /\ CountRows(CreatedToday("w1", 1)) = 3
    /\ \A n \in CreatedToday("w1", 1) : n.priority = "high"
    /\ \A r \in RunSlots :
          runs[r].kind = "today" /\ Completed(runs[r]) /\ runs[r].outcome = "sent"

\* The invocation ran to completion: it returned, and not through its catch
\* block nor at its configuration check.
RanToCompletion(run) ==
    run.pc = "done" /\ run.outcome \in {"empty", "nothing", "sent"}

\* C15 (the claim as stated): every invocation that ran to completion made
\* exactly one batch-create call, whatever the number of its candidates and
\* of its records.
C15_ExactlyOneBatchCall ==
    \A r \in RunSlots : RanToCompletion(runs[r]) => runs[r].calls.create = 1

\* C15 (amended): no invocation makes more than one batch-create call; an
\* invocation that ran to completion made exactly one if it built at least
\* one record, and that call carried all its records, each of which became
\* one row; it made none if it built no record (no candidate, every
\* candidate skipped or outside the window), and then it created no row.
C15_OneBatchCallIfAnyRecord ==
    \A r \in RunSlots :
        LET run == runs[r]
            created == CreatedBy(run.serial, BagToSet(notifications))
        IN  /\ run.calls.create <= 1
            /\ RanToCompletion(run) =>
                  IF Len(run.notifications) > 0
                  THEN /\ run.calls.create = 1
                       /\ CountRows(created) = Len(run.notifications)
                       /\ \A k \in DOMAIN run.notifications :
                             \E t \in ClockValues :
                                Stored(run.notifications[k], t, run.serial) \in created
                  ELSE /\ run.calls.create = 0
                       /\ created = {}

\* C15 witness: an invocation ran to completion with two candidates and
\* four records, which one batch-create call turned into four rows.
C15_Witness ==
    \E r \in RunSlots :
        /\ RanToCompletion(runs[r])
        /\ Len(runs[r].cands) = 2 /\ Len(runs[r].notifications) = 4
        /\ runs[r].calls.create = 1
        /\ CountRows(CreatedBy(runs[r].serial, BagToSet(notifications))) = 4

\* C16 (the claim as stated): stop() called while Running changes no
\* invocation and no row, and leaves the scheduler Stopped with no task
\* that could fire afterwards; an invocation suspended on a store operation
\* can take that operation's return, and with it write its batch or fail,
\* whether the scheduler is Running or Stopped; a cron task enters a
\* pipeline only while the scheduler is Running.
C16_StopDoesNotCancelRuns ==
    /\ [](isRunning => ENABLED (StopsFromRunning /\ runs' = runs
                                   /\ notifications' = notifications))
    /\ [][(stop /\ isRunning) =>
            /\ runs' = runs /\ notifications' = notifications
            /\ ~isRunning'
            /\ \A k \in CronKinds : tasks'[k] = 0]_vars
    /\ [](\A r \in RunSlots :
            /\ (runs[r].pc = "query" /\ runs[r].kind = "today")
                  => ENABLED TodaysAppointmentsReturn(r)
            /\ (runs[r].pc = "query" /\ runs[r].kind = "soon")
                  => ENABLED UpcomingAppointmentsReturn(r)
            /\ runs[r].pc = "dupcheck" => ENABLED ExistingNotificationsReturn(r)
            /\ runs[r].pc = "create" => ENABLED CreateBatchReturn(r))
    /\ [][CronRunBegins => isRunning]_vars

====
